---- MODULE Spec2Model ----
(***************************************************************************)
(* The Alipay payment method of composite-checkout: the 'alipay' store     *)
(* (one customerName field), the name field, the pay button's onClick      *)
(* handler with isFormValid, and the settlement of the processor call.     *)
(*                                                                         *)
(* The store is an object outside React: isFormValid reads it live through *)
(* store.getState(), while the pay button and the field see the value that *)
(* useSelect handed them at their last render.  A dispatch and the render  *)
(* that follows it are therefore two steps.  The form status is React      *)
(* state of the host: a change of it is a render.                          *)
(*                                                                         *)
(* The nav sidebar of the block editor is modelled beside it: the items    *)
(* and status labels its hooks select from the 'core' and 'core/editor'    *)
(* stores, and the click on its home button.                               *)
(***************************************************************************)
EXTENDS Integers, Sequences, FiniteSets, Bags, TLC

VARIABLES
    state,              \* store.getState() of the 'alipay' store
    rendered,           \* customerName as useSelect returned it at the last render
    formStatus,         \* useFormStatus().formStatus
    transactionStatus,  \* the transaction status collaborator
    calls,              \* bag of the processor calls not yet settled
    counts,             \* presses that passed validation, processor calls, events
    last,               \* the handler that ran last, its input and its effects in order
    editor              \* what the nav sidebar selects: the 'core' and 'core/editor'
                        \* stores, the hooks, and where the browser is

vars == <<state, rendered, formStatus, transactionStatus, calls, counts, last, editor>>

-----------------------------------------------------------------------------
(* Bounds *)

MaxLen == 1         \* longest name typed
MaxInFlight == 2    \* processor calls unsettled at the same time
MaxPresses == 2     \* presses that pass validation in one run
MaxPosts == 2       \* posts of the current post type the site holds
MaxStatuses == 2    \* status records the 'core' store has loaded

-----------------------------------------------------------------------------
(* Values *)

Chars == {" ", "a"}

\* JavaScript strings, as sequences of characters; '' is <<>>.
Names == UNION {[1..k -> Chars] : k \in 0..MaxLen}

EmptyString == <<>>

FormStatuses == {"ready", "submitting", "pending", "loading"}

GenericErrorMessage ==
    "There was an error processing your payment. Please try again or contact support."

RedirectUrls == {"", "https://pay.example/x", "https://pay.example/y"}

\* What the processor's promise resolves with: undefined, {} or {redirect_url}.
Responses ==
    {[defined |-> FALSE, hasUrl |-> FALSE, redirect_url |-> ""],
     [defined |-> TRUE, hasUrl |-> FALSE, redirect_url |-> ""]}
    \cup {[defined |-> TRUE, hasUrl |-> TRUE, redirect_url |-> u] : u \in RedirectUrls}

\* What the processor's promise rejects with: an Error with a message, or undefined.
Rejections ==
    {[defined |-> TRUE, message |-> "card declined"],
     [defined |-> FALSE, message |-> ""]}

\* A call a handler makes: what is called, and the argument, kept under the name
\* of what is called.
Effect(kind, arg) == [kind |-> kind, arg |-> [k \in {kind} |-> arg]]

\* The argument of a call.
ArgumentOf(e) == e.arg[e.kind]

-----------------------------------------------------------------------------
(* The store *)

changeCustomerName(payload) == [type |-> "CUSTOMER_NAME_SET", payload |-> payload]

getCustomerName(st) ==
    IF "customerName" \in DOMAIN st THEN st.customerName ELSE EmptyString

\* A store state that holds no customerName.
EmptyObject == <<>>

\* Actions of other types that reach the reducer.
OtherActions ==
    {[type |-> "@@redux/INIT", payload |-> EmptyString],
     [type |-> "OTHER", payload |-> <<"a">>]}

initialState == [customerName |-> [value |-> EmptyString, isTouched |-> FALSE]]

\* String.prototype.trim, for the statements that speak of a trimmed name.
RECURSIVE TrimStart(_)
TrimStart(s) == IF s # <<>> /\ Head(s) = " " THEN TrimStart(Tail(s)) ELSE s

RECURSIVE TrimEnd(_)
TrimEnd(s) ==
    IF s # <<>> /\ s[Len(s)] = " " THEN TrimEnd(SubSeq(s, 1, Len(s) - 1)) ELSE s

Trim(s) == TrimEnd(TrimStart(s))

\* reducer, were it to normalise the payload
reducer_TrimsPayload(st, action) ==
    IF action.type = "CUSTOMER_NAME_SET"
    THEN [st EXCEPT !.customerName =
                        [value |-> Trim(action.payload), isTouched |-> TRUE]]
    ELSE st

\* reducer, were it to count the field as touched only when it holds a name
reducer_TouchedWhenNamed(st, action) ==
    IF action.type = "CUSTOMER_NAME_SET"
    THEN [st EXCEPT !.customerName =
                        [value |-> action.payload,
                         isTouched |-> action.payload # EmptyString]]
    ELSE st

\* reducer, were its default path to return the initial state
reducer_ResetsOnOther(st, action) ==
    IF action.type = "CUSTOMER_NAME_SET"
    THEN [st EXCEPT !.customerName = [value |-> action.payload, isTouched |-> TRUE]]
    ELSE initialState

\* reducer, were the setter to leave the touched flag as it was
reducer_KeepsTouched(st, action) ==
    IF action.type = "CUSTOMER_NAME_SET"
    THEN [st EXCEPT !.customerName =
                        [value |-> action.payload,
                         isTouched |-> st.customerName.isTouched]]
    ELSE st

\* { ...state, customerName }
withCustomerName(st, customerName) ==
    [k \in DOMAIN st \cup {"customerName"} |->
        IF k = "customerName" THEN customerName ELSE st[k]]

reducer(st, action) ==
    IF action.type = "CUSTOMER_NAME_SET"
    THEN withCustomerName(st, [value |-> action.payload, isTouched |-> TRUE])
    ELSE st

\* store.dispatch( action )
dispatch(st, action) == reducer(st, action)

-----------------------------------------------------------------------------
(* isFormValid: its return value and the store state it leaves *)

\* isFormValid, were it to return false without touching the field
isFormValid_NoTouch(st) ==
    LET customerName == getCustomerName(st)
    IN  IF Len(customerName.value) = 0
        THEN [result |-> FALSE, state |-> st, effects |-> <<>>]
        ELSE [result |-> TRUE, state |-> st, effects |-> <<>>]

\* isFormValid, were it to judge the trimmed name
isFormValid_Trimmed(st) ==
    LET customerName == getCustomerName(st)
    IN  IF Len(Trim(customerName.value)) = 0
        THEN [result |-> FALSE,
              state |-> dispatch(st, changeCustomerName(EmptyString)),
              effects |-> <<Effect("dispatch", changeCustomerName(EmptyString))>>]
        ELSE [result |-> TRUE, state |-> st, effects |-> <<>>]

\* isFormValid, were it to judge the touched flag instead of the value
isFormValid_JudgesTouched(st) ==
    LET customerName == getCustomerName(st)
    IN  IF ~customerName.isTouched
        THEN [result |-> FALSE,
              state |-> dispatch(st, changeCustomerName(EmptyString)),
              effects |-> <<Effect("dispatch", changeCustomerName(EmptyString))>>]
        ELSE [result |-> TRUE, state |-> st, effects |-> <<>>]

isFormValid(st) ==
    LET customerName == getCustomerName(st)
    IN  IF Len(customerName.value) = 0
        THEN [result |-> FALSE,
              state |-> dispatch(st, changeCustomerName(EmptyString)),
              effects |-> <<Effect("dispatch", changeCustomerName(EmptyString))>>]
        ELSE [result |-> TRUE, state |-> st, effects |-> <<>>]

-----------------------------------------------------------------------------
(* The controls *)

\* isDisabled, were the comparison inverted
AlipayFieldsIsDisabled_Inverted == formStatus = "ready"

\* AlipayFields: isDisabled
AlipayFieldsIsDisabled == formStatus # "ready"

\* isError, were it to judge the trimmed value
AlipayFieldsIsError_Trimmed == rendered.isTouched /\ Len(Trim(rendered.value)) = 0

\* AlipayFields: isError of the field, from the customerName of the last render
AlipayFieldsIsError == rendered.isTouched /\ Len(rendered.value) = 0

\* AlipayFields: the props the name field is rendered with.
AlipayFieldProps ==
    [value |-> rendered.value,
     isError |-> AlipayFieldsIsError,
     errorMessage |-> "This field is required",
     disabled |-> AlipayFieldsIsDisabled]

\* The disabled prop the host hands the pay button.
AlipayPayButtonDisabled == formStatus # "ready"

\* useLineItems(): the totals the button may be handed.
Totals == {[amount |-> [displayValue |-> v]] : v \in {"$10", "~~$20~~ $15"}}

\* The formatted total; the renderer is the host's.
renderDisplayValueMarkdown(displayValue) == [rendered |-> displayValue]

\* A translated text with the arguments sprintf puts into it.  The ellipsis of
\* the source's texts (U+2026) is written as three dots.
Label(text, args) == [text |-> text, args |-> args]

\* ButtonContents, were it to show the busy text whenever the form is not ready
ButtonContents_BusyUnlessReady(status, total) ==
    IF status = "ready"
    THEN Label("Pay %s", <<renderDisplayValueMarkdown(total.amount.displayValue)>>)
    ELSE Label("Processing...", <<>>)

ButtonContents(status, total) ==
    IF status = "submitting"
    THEN Label("Processing...", <<>>)
    ELSE IF status = "ready"
         THEN Label("Pay %s",
                    <<renderDisplayValueMarkdown(total.amount.displayValue)>>)
         ELSE Label("Please wait...", <<>>)

-----------------------------------------------------------------------------
(* Transaction status *)

setTransactionPending == [status |-> "pending", arg |-> ""]
setTransactionError(message) == [status |-> "error", arg |-> message]
setTransactionRedirecting(url) == [status |-> "redirecting", arg |-> url]

RedirectBeginEvent ==
    [type |-> "REDIRECT_TRANSACTION_BEGIN", payload |-> [paymentMethodId |-> "alipay"]]

-----------------------------------------------------------------------------
(* The nav sidebar of the block editor: the data it selects *)

\* The status records of the site.
StatusRecords ==
    {[slug |-> "publish", name |-> "Published", show_in_list |-> TRUE],
     [slug |-> "draft", name |-> "Draft", show_in_list |-> TRUE],
     [slug |-> "trash", name |-> "Trash", show_in_list |-> FALSE]}

\* What getEntityRecords( 'root', 'status' ) may hold once loaded: the records in
\* any order, none twice.
StatusLists ==
    {sq \in UNION {[1..k -> StatusRecords] : k \in 0..MaxStatuses} :
        \A i, j \in 1..Len(sq) : i # j => sq[i] # sq[j]}

PostIds == 1..MaxPosts

\* The id of a post that is being created.
NewPostId == MaxPosts + 1

PostStatusOf(id) == IF id % 2 = 1 THEN "publish" ELSE "draft"

\* The posts of the current post type on the site, as the fields the query asks for.
Post(id) == [id |-> id, status |-> PostStatusOf(id)]

\* The site's posts by modification date, latest first.
RECURSIVE SitePostsFrom(_)
SitePostsFrom(id) == IF id = 0 THEN <<>> ELSE <<Post(id)>> \o SitePostsFrom(id - 1)

SitePosts == SitePostsFrom(MaxPosts)

\* per_page of the post query
PerPage == 10

\* statuses.filter( show_in_list ).map( slug ), the list that is joined with ','
RECURSIVE StatusFilter(_)
StatusFilter(statuses) ==
    IF statuses = <<>> THEN <<>>
    ELSE (IF Head(statuses).show_in_list THEN <<Head(statuses).slug>> ELSE <<>>)
             \o StatusFilter(Tail(statuses))

\* The query useNavItems hands to getEntityRecords( 'postType', currentPostType, ... )
PostQuery(ed) ==
    [exclude |-> {ed.currentPostId},
     orderby |-> "modified",
     per_page |-> PerPage,
     status |-> StatusFilter(ed.statuses.records)]

\* The records the site answers a post query with: the posts the query does not
\* exclude and whose status it names, in the order asked for, a page of them.
AnswerTo(query) ==
    LET named == {query.status[i] : i \in 1..Len(query.status)}
        found == SelectSeq(SitePosts,
                           LAMBDA post : /\ post.id \notin query.exclude
                                         /\ post.status \in named)
    IN  SubSeq(found, 1, IF Len(found) < query.per_page THEN Len(found)
                         ELSE query.per_page)

\* What getEntityRecords returns: null, or an array of records.
Null == [isNull |-> TRUE, records |-> <<>>]
Array(records) == [isNull |-> FALSE, records |-> records]

\* select( 'core' ).getEntityRecords( 'root', 'status' )
getStatusRecords(ed) ==
    IF ed.statuses.loaded THEN Array(ed.statuses.records) ELSE Null

\* select( 'core' ).getEntityRecords( 'postType', currentPostType, query ): the
\* records the store holds for this very query, null while it holds none.
getPostRecords(ed, query) ==
    IF ed.items.resolved /\ ed.items.query = query
    THEN Array(ed.items.records) ELSE Null

\* The post being edited, as useNavItems lists it.
currentPost(ed) ==
    [id |-> ed.currentPostId,
     status |-> IF ed.isEditedPostNew THEN "draft" ELSE ed.editedPostStatus]

\* useNavItems, were the current post listed before the statuses are loaded
useNavItems_ListsBeforeStatuses(ed) ==
    LET statuses == getStatusRecords(ed)
        found == getPostRecords(ed, PostQuery(ed))
        items == IF found.isNull \/ statuses.isNull THEN <<>> ELSE found.records
    IN  <<currentPost(ed)>> \o items

\* useNavItems: the items of the sidebar's list
useNavItems(ed) ==
    LET statuses == getStatusRecords(ed)
    IN  IF statuses.isNull THEN <<>>
        ELSE LET found == getPostRecords(ed, PostQuery(ed))
                 items == IF found.isNull THEN <<>> ELSE found.records
             IN  <<currentPost(ed)>> \o items

\* { ...acc, [ slug ]: name }
withLabel(acc, slug, name) ==
    [k \in DOMAIN acc \cup {slug} |-> IF k = slug THEN name ELSE acc[k]]

\* The reduce of usePostStatusLabels, over the records that are left.
RECURSIVE reduceLabels(_, _)
reduceLabels(acc, items) ==
    IF items = <<>> THEN acc
    ELSE LET slug == Head(items).slug
             name == Head(items).name
         IN  reduceLabels(IF slug = "publish" THEN acc ELSE withLabel(acc, slug, name),
                          Tail(items))

\* usePostStatusLabels, were the 'publish' record not skipped
usePostStatusLabels_KeepsPublish(ed) ==
    LET items == getStatusRecords(ed)
        labelled == IF items.isNull THEN <<>> ELSE items.records
    IN  [k \in {labelled[i].slug : i \in 1..Len(labelled)} |->
            (CHOOSE r \in {labelled[i] : i \in 1..Len(labelled)} : r.slug = k).name]

\* usePostStatusLabels: the label of each status, by slug
usePostStatusLabels(ed) ==
    LET items == getStatusRecords(ed)
    IN  reduceLabels(EmptyObject, IF items.isNull THEN <<>> ELSE items.records)

\* NavItem: what is rendered of an item; statusLabel is statusLabels[ item.status ],
\* and the label is left out when that is undefined or empty.
NavItem(item, statusLabels) ==
    [id |-> item.id,
     label |-> IF item.status \in DOMAIN statusLabels /\ statusLabels[item.status] # ""
               THEN <<statusLabels[item.status]>> ELSE <<>>]

\* The list of the sidebar: items.map( NavItem )
PageList(ed) ==
    LET items == useNavItems(ed)
        statusLabels == usePostStatusLabels(ed)
    IN  [i \in 1..Len(items) |-> NavItem(items[i], statusLabels)]

CloseEditorAction == "a8c.wpcom-block-editor.closeEditor"

\* handleClose, were it to prevent the default whether or not a handler is registered
handleClose_AlwaysPrevents(hasAction) ==
    IF hasAction
    THEN <<Effect("preventDefault", <<>>), Effect("doAction", CloseEditorAction)>>
    ELSE <<Effect("preventDefault", <<>>)>>

\* handleClose: the calls it makes, hasAction being what
\* hasAction( 'a8c.wpcom-block-editor.closeEditor' ) returns
handleClose(hasAction) ==
    IF hasAction
    THEN <<Effect("preventDefault", <<>>), Effect("doAction", CloseEditorAction)>>
    ELSE <<>>

\* addQueryArgs( 'edit.php', { post_type: postType.slug } ), no filter registered
closeUrl == "edit.php?post_type=page"

\* The sidebar's stores before anything is loaded, post id being edited.
EditorAt(id) ==
    [statuses |-> [loaded |-> FALSE, records |-> <<>>],
     items |-> [resolved |-> FALSE, query |-> EmptyObject, records |-> <<>>],
     currentPostId |-> id,
     isEditedPostNew |-> id = NewPostId,
     editedPostStatus |-> IF id = NewPostId THEN "auto-draft" ELSE PostStatusOf(id),
     hasAction |-> FALSE,
     location |-> "editor"]

-----------------------------------------------------------------------------
Init ==
    /\ state = initialState
    /\ rendered = getCustomerName(initialState)
    /\ formStatus = "ready"
    /\ transactionStatus = [status |-> "not-started", arg |-> ""]
    /\ calls = EmptyBag
    /\ counts = [validPresses |-> 0, invocations |-> 0, events |-> 0]
    /\ last = [op |-> "init", arg |-> EmptyString, effects |-> <<>>]
    /\ editor = EditorAt(1)

\* A change event of the name field: onChange={ changeCustomerName }
FieldOnChange(x) ==
    /\ ~AlipayFieldsIsDisabled
    /\ state' = dispatch(state, changeCustomerName(x))
    /\ last' = [op |-> "changeCustomerName", arg |-> [payload |-> x],
                effects |-> <<Effect("dispatch", changeCustomerName(x))>>]
    /\ UNCHANGED <<rendered, formStatus, transactionStatus, calls, counts, editor>>

\* The render that follows a store change: useSelect hands over the new customerName.
Render ==
    /\ rendered # getCustomerName(state)
    /\ rendered' = getCustomerName(state)
    /\ last' = [op |-> "render", arg |-> EmptyString, effects |-> <<>>]
    /\ UNCHANGED <<state, formStatus, transactionStatus, calls, counts, editor>>

\* Truthiness of stripeResponse?.redirect_url
hasRedirectUrl(stripeResponse) ==
    /\ stripeResponse.defined
    /\ stripeResponse.hasUrl
    /\ stripeResponse.redirect_url # ""

\* The transaction status after a handler's effects, taken in order.
RECURSIVE StatusAfter(_, _)
StatusAfter(ts, effects) ==
    IF effects = <<>> THEN ts
    ELSE LET e == Head(effects)
             next == CASE e.kind = "setTransactionPending" -> setTransactionPending
                       [] e.kind = "setTransactionError" ->
                              setTransactionError(ArgumentOf(e))
                       [] e.kind = "setTransactionRedirecting" ->
                              setTransactionRedirecting(ArgumentOf(e))
                       [] OTHER -> ts
         IN  StatusAfter(next, Tail(effects))

\* The processor calls a handler's effects start.
RECURSIVE CallsStarted(_)
CallsStarted(effects) ==
    IF effects = <<>> THEN EmptyBag
    ELSE (IF Head(effects).kind = "submitTransaction"
          THEN SetToBag({ArgumentOf(Head(effects))}) ELSE EmptyBag)
         (+) CallsStarted(Tail(effects))

\* The submission sequence, were the processor called before the status is set
submitSequence_CallFirst(name) ==
    <<Effect("submitTransaction", name),
      Effect("setTransactionPending", ""),
      Effect("onEvent", RedirectBeginEvent)>>

\* The body of the onClick handler once isFormValid returned true, in the order of
\* the code; name is customerName?.value of the render the handler was created in.
submitSequence(name) ==
    <<Effect("setTransactionPending", ""),
      Effect("onEvent", RedirectBeginEvent),
      Effect("submitTransaction", name)>>

\* onClick, were the submission sequence not gated by isFormValid
onClick_NoValidationGate(st, customerName) ==
    LET valid == isFormValid(st)
    IN  [state |-> valid.state,
         effects |-> valid.effects \o submitSequence(customerName.value)]

\* onClick, were the status set to pending before the form is validated
onClick_PendingFirst(st, customerName) ==
    LET valid == isFormValid(st)
        pending == <<Effect("setTransactionPending", "")>>
    IN  IF valid.result
        THEN [state |-> valid.state,
              effects |-> valid.effects \o submitSequence(customerName.value)]
        ELSE [state |-> valid.state, effects |-> pending \o valid.effects]

\* The onClick handler of the pay button: the store state it leaves and its effects.
onClick(st, customerName) ==
    LET valid == isFormValid(st)
    IN  IF valid.result
        THEN [state |-> valid.state,
              effects |-> valid.effects \o submitSequence(customerName.value)]
        ELSE [state |-> valid.state, effects |-> valid.effects]

\* The then-handler, were the negation of its test missing
thenHandler_MissingNegation(stripeResponse) ==
    IF hasRedirectUrl(stripeResponse)
    THEN <<Effect("setTransactionError", GenericErrorMessage)>>
    ELSE <<Effect("setTransactionRedirecting", stripeResponse.redirect_url)>>

\* The then-handler, were the return after setTransactionError missing
thenHandler_NoReturn(stripeResponse) ==
    IF ~hasRedirectUrl(stripeResponse)
    THEN <<Effect("setTransactionError", GenericErrorMessage),
           Effect("setTransactionRedirecting", stripeResponse.redirect_url)>>
    ELSE <<Effect("setTransactionRedirecting", stripeResponse.redirect_url)>>

\* The then-handler, were it to emit the event again when the call settles
thenHandler_EmitsEvent(stripeResponse) ==
    <<Effect("onEvent", RedirectBeginEvent)>>
        \o (IF ~hasRedirectUrl(stripeResponse)
            THEN <<Effect("setTransactionError", GenericErrorMessage)>>
            ELSE <<Effect("setTransactionRedirecting", stripeResponse.redirect_url)>>)

\* The then-handler of the processor call.
thenHandler(stripeResponse) ==
    IF ~hasRedirectUrl(stripeResponse)
    THEN <<Effect("setTransactionError", GenericErrorMessage)>>
    ELSE <<Effect("setTransactionRedirecting", stripeResponse.redirect_url)>>

\* The catch-handler, were it to report the generic message
catchHandler_GenericMessage(error) ==
    IF error.defined
    THEN <<Effect("setTransactionError", GenericErrorMessage)>>
    ELSE <<Effect("throw", "TypeError")>>

\* The catch-handler of the processor call; reading .message of undefined throws.
catchHandler(error) ==
    IF error.defined
    THEN <<Effect("setTransactionError", error.message)>>
    ELSE <<Effect("throw", "TypeError")>>

\* The counters after a handler's effects; passed tells whether a press passed
\* validation.
Counted(c, effects, passed) ==
    LET n(kind) == Len(SelectSeq(effects, LAMBDA e : e.kind = kind))
    IN  [validPresses |-> c.validPresses + (IF passed THEN 1 ELSE 0),
         invocations |-> c.invocations + n("submitTransaction"),
         events |-> c.events + n("onEvent")]

\* How the processor behaves when called: it returns a promise, or it throws.
ProcessorStarts == {"promise", "throws"}

\* A press of the pay button.  A processor that throws when called ends the handler
\* with that exception: no promise exists and no handler is attached.
ButtonOnClick(start) ==
    /\ ~AlipayPayButtonDisabled
    /\ LET run == onClick(state, rendered)
           started == CallsStarted(run.effects)
           effects == IF start = "throws"
                      THEN run.effects \o <<Effect("throw", "Error")>>
                      ELSE run.effects
           unsettled == IF start = "throws" THEN calls ELSE calls (+) started
       IN  /\ start = "throws" => started # EmptyBag
           /\ BagCardinality(unsettled) <= MaxInFlight
           /\ counts' = Counted(counts, effects, isFormValid(state).result)
           /\ counts'.validPresses <= MaxPresses
           /\ state' = run.state
           /\ transactionStatus' = StatusAfter(transactionStatus, run.effects)
           /\ calls' = unsettled
           /\ last' = [op |-> "onClick",
                       arg |-> [name |-> getCustomerName(state).value],
                       effects |-> effects]
    /\ UNCHANGED <<rendered, formStatus, editor>>

\* The processor call made with this name resolves.
ProcessorResolve(name, stripeResponse) ==
    /\ BagIn(name, calls)
    /\ calls' = calls (-) SetToBag({name})
    /\ LET effects == thenHandler(stripeResponse)
       IN  /\ transactionStatus' = StatusAfter(transactionStatus, effects)
           /\ counts' = Counted(counts, effects, FALSE)
           /\ last' = [op |-> "then", arg |-> stripeResponse, effects |-> effects]
    /\ UNCHANGED <<state, rendered, formStatus, editor>>

\* The processor call made with this name rejects.
ProcessorReject(name, error) ==
    /\ BagIn(name, calls)
    /\ calls' = calls (-) SetToBag({name})
    /\ LET effects == catchHandler(error)
       IN  /\ transactionStatus' = StatusAfter(transactionStatus, effects)
           /\ counts' = Counted(counts, effects, FALSE)
           /\ last' = [op |-> "catch", arg |-> error, effects |-> effects]
    /\ UNCHANGED <<state, rendered, formStatus, editor>>

\* The host changes the form status; the components render with it.
SetFormStatus(status) ==
    /\ status # formStatus
    /\ formStatus' = status
    /\ rendered' = getCustomerName(state)
    /\ last' = [op |-> "setFormStatus", arg |-> [status |-> status], effects |-> <<>>]
    /\ UNCHANGED <<state, transactionStatus, calls, counts, editor>>

\* A read of the selector, by any caller.
SelectCustomerName ==
    /\ last' = [op |-> "getCustomerName", arg |-> state,
                effects |-> <<Effect("return", getCustomerName(state))>>]
    /\ UNCHANGED <<state, rendered, formStatus, transactionStatus, calls, counts,
                   editor>>

\* An action of another type is dispatched to the store.
ForeignDispatch(action) ==
    /\ state' = dispatch(state, action)
    /\ last' = [op |-> "dispatch", arg |-> action, effects |-> <<>>]
    /\ UNCHANGED <<rendered, formStatus, transactionStatus, calls, counts, editor>>

Next ==
    \/ \E x \in Names : FieldOnChange(x)
    \/ Render
    \/ \E start \in ProcessorStarts : ButtonOnClick(start)
    \/ \E name \in Names, r \in Responses : ProcessorResolve(name, r)
    \/ \E name \in Names, e \in Rejections : ProcessorReject(name, e)
    \/ \E s \in FormStatuses : SetFormStatus(s)
    \/ SelectCustomerName
    \/ \E action \in OtherActions : ForeignDispatch(action)

Spec == Init /\ [][Next]_vars

\* A processor call in flight settles: its promise resolves or rejects.
ProcessorSettles ==
    \/ \E name \in Names, r \in Responses : ProcessorResolve(name, r)
    \/ \E name \in Names, e \in Rejections : ProcessorReject(name, e)

\* The component under its scheduling: a store change is followed by the render of
\* its subscribers, and every processor call in flight settles.  A render changes
\* rendered and a settlement changes calls.
SpecLive ==
    Init /\ [][Next]_vars /\ WF_rendered(Render) /\ WF_calls(ProcessorSettles)

-----------------------------------------------------------------------------
(* The store and its selector on their own, from any store state they may be
   handed: the states the reducer produces, and a state with no customerName. *)

StoreStates ==
    {EmptyObject, initialState}
    \cup {[customerName |-> [value |-> x, isTouched |-> TRUE]] : x \in Names}

InitStore ==
    /\ state \in StoreStates
    /\ rendered = getCustomerName(state)
    /\ formStatus = "ready"
    /\ transactionStatus = [status |-> "not-started", arg |-> ""]
    /\ calls = EmptyBag
    /\ counts = [validPresses |-> 0, invocations |-> 0, events |-> 0]
    /\ last = [op |-> "init", arg |-> EmptyString, effects |-> <<>>]
    /\ editor = EditorAt(1)

NextStore ==
    \/ SelectCustomerName
    \/ \E x \in Names : FieldOnChange(x)
    \/ \E action \in OtherActions : ForeignDispatch(action)
    \/ \E s \in FormStatuses : SetFormStatus(s)
    \/ Render

SpecStore == InitStore /\ [][NextStore]_vars

-----------------------------------------------------------------------------
(* The nav sidebar: what happens around it *)

checkout == <<state, rendered, formStatus, transactionStatus, calls, counts>>

\* The 'core' store has loaded the status records.
ResolveStatuses(records) ==
    /\ editor.location = "editor"
    /\ ~editor.statuses.loaded
    /\ editor' = [editor EXCEPT !.statuses = [loaded |-> TRUE, records |-> records]]
    /\ last' = [op |-> "resolveStatuses", arg |-> EmptyObject, effects |-> <<>>]
    /\ UNCHANGED checkout

\* The 'core' store has the site's answer to the post query useNavItems made; the
\* query is made only once the statuses are loaded.
ResolvePosts ==
    /\ editor.location = "editor"
    /\ editor.statuses.loaded
    /\ getPostRecords(editor, PostQuery(editor)).isNull
    /\ editor' = [editor EXCEPT !.items = [resolved |-> TRUE,
                                           query |-> PostQuery(editor),
                                           records |-> AnswerTo(PostQuery(editor))]]
    /\ last' = [op |-> "resolvePosts", arg |-> EmptyObject, effects |-> <<>>]
    /\ UNCHANGED checkout

\* The editor is set up with another post.
SwitchPost(id) ==
    /\ editor.location = "editor"
    /\ id # editor.currentPostId
    /\ editor' = [editor EXCEPT !.currentPostId = id,
                                !.isEditedPostNew = (id = NewPostId),
                                !.editedPostStatus = EditorAt(id).editedPostStatus]
    /\ last' = [op |-> "switchPost", arg |-> EmptyObject, effects |-> <<>>]
    /\ UNCHANGED checkout

\* addAction / removeAction of 'a8c.wpcom-block-editor.closeEditor', by the host
SetCloseAction(registered) ==
    /\ editor.location = "editor"
    /\ registered # editor.hasAction
    /\ editor' = [editor EXCEPT !.hasAction = registered]
    /\ last' = [op |-> "setCloseAction", arg |-> EmptyObject, effects |-> <<>>]
    /\ UNCHANGED checkout

\* The sidebar renders: its hooks select from the stores.
RenderSidebar ==
    /\ editor.location = "editor"
    /\ last' = [op |-> "renderSidebar", arg |-> editor,
                effects |-> <<Effect("useNavItems", useNavItems(editor)),
                              Effect("usePostStatusLabels", usePostStatusLabels(editor)),
                              Effect("PageList", PageList(editor))>>]
    /\ UNCHANGED <<checkout, editor>>

\* A click on the home button, a link to closeUrl with onClick={ handleClose }: the
\* browser follows the link unless the handler prevented the default.
HomeButtonClick ==
    /\ editor.location = "editor"
    /\ LET effects == handleClose(editor.hasAction)
           prevented == \E i \in 1..Len(effects) : effects[i].kind = "preventDefault"
       IN  /\ editor' = [editor EXCEPT !.location =
                                           IF prevented THEN "editor" ELSE closeUrl]
           /\ last' = [op |-> "handleClose", arg |-> [hasAction |-> editor.hasAction],
                       effects |-> effects]
    /\ UNCHANGED checkout

InitNav ==
    /\ state = initialState
    /\ rendered = getCustomerName(initialState)
    /\ formStatus = "ready"
    /\ transactionStatus = [status |-> "not-started", arg |-> ""]
    /\ calls = EmptyBag
    /\ counts = [validPresses |-> 0, invocations |-> 0, events |-> 0]
    /\ last = [op |-> "init", arg |-> EmptyString, effects |-> <<>>]
    /\ editor \in {EditorAt(id) : id \in PostIds \cup {NewPostId}}

NextNav ==
    \/ \E records \in StatusLists : ResolveStatuses(records)
    \/ ResolvePosts
    \/ \E id \in PostIds \cup {NewPostId} : SwitchPost(id)
    \/ \E registered \in BOOLEAN : SetCloseAction(registered)
    \/ RenderSidebar
    \/ HomeButtonClick

SpecNav == InitNav /\ [][NextNav]_vars

-----------------------------------------------------------------------------
(* Reading the record of the handler that ran last *)

EffectKinds(effects) == {effects[i].kind : i \in 1..Len(effects)}

\* The names the processor was invoked with by the handler that ran last.
NamesSubmitted ==
    SelectSeq(last.effects, LAMBDA e : e.kind = "submitTransaction")

-----------------------------------------------------------------------------
(* The claims *)

\* C1: after changeCustomerName(x) is dispatched, by the field or by isFormValid,
\* from any store state, getCustomerName returns {value: x, isTouched: true},
\* x kept as it was given, the empty string included.
C1_SetterRoundTrip ==
    \A i \in 1..Len(last.effects) :
        last.effects[i].kind = "dispatch"
            => getCustomerName(state) =
                   [value |-> ArgumentOf(last.effects[i]).payload, isTouched |-> TRUE]

\* C1 witness: the empty string was set over a name the user had typed before.
C1_Witness ==
    /\ last.op = "changeCustomerName"
    /\ last.arg.payload = EmptyString
    /\ rendered.value # EmptyString
    /\ getCustomerName(state).value = EmptyString

\* C2: once customerName.isTouched is true, no step makes it false again.
C2_TouchedIsMonotonic ==
    [][getCustomerName(state).isTouched => getCustomerName(state').isTouched]_vars

\* C2 witness: the field is touched and holds the empty string after a rejection.
C2_Witness ==
    /\ getCustomerName(state).isTouched
    /\ getCustomerName(state).value = EmptyString
    /\ last.op = "catch"

\* C3: a press while the store's name is the empty string leaves the store at
\* {value: '', isTouched: true} and invokes the processor for no name.
C3_EmptyNameSubmit ==
    (last.op = "onClick" /\ last.arg.name = EmptyString)
        => /\ getCustomerName(state) = [value |-> EmptyString, isTouched |-> TRUE]
           /\ NamesSubmitted = <<>>

\* C3 witness: the first press from the initial state, the field not yet rendered again.
C3_Witness ==
    /\ last.op = "onClick"
    /\ last.arg.name = EmptyString
    /\ ~rendered.isTouched
    /\ calls = EmptyBag

\* C4: a press while the store's name is a non-empty s invokes the processor exactly
\* once, with name s, the store's value at the time of the press.
C4_SubmitSendsStoreName ==
    (last.op = "onClick" /\ last.arg.name # EmptyString)
        => /\ Len(NamesSubmitted) = 1
           /\ ArgumentOf(NamesSubmitted[1]) = last.arg.name

\* C5 as stated: a press while the trimmed name is empty dispatches the setter with
\* the empty string and does not run the submission sequence.
C5_TrimmedNameIsJudged ==
    (last.op = "onClick" /\ Trim(last.arg.name) = EmptyString)
        => last.effects = <<Effect("dispatch", changeCustomerName(EmptyString))>>

\* C5 as amended: isFormValid judges the name as stored, untrimmed.  A press while
\* the name has length zero dispatches the setter with the empty string and nothing
\* else; a press while the name has any character, whitespace included, dispatches
\* nothing and runs the submission sequence.
C5_RawNameIsJudged ==
    last.op = "onClick"
        => IF Len(last.arg.name) = 0
           THEN last.effects = <<Effect("dispatch", changeCustomerName(EmptyString))>>
           ELSE /\ "dispatch" \notin EffectKinds(last.effects)
                /\ "submitTransaction" \in EffectKinds(last.effects)

\* C5 witness: a press while the name was whitespace only.
C5_Witness ==
    /\ last.op = "onClick"
    /\ last.arg.name # EmptyString
    /\ Trim(last.arg.name) = EmptyString

\* C6: a processor call that resolves with a redirect URL sets the transaction status
\* to redirecting with that URL, and makes no other transition.
C6_RedirectOnUrl ==
    (/\ last.op = "then"
     /\ last.arg.defined
     /\ last.arg.hasUrl
     /\ last.arg.redirect_url # "")
        => /\ transactionStatus =
                  [status |-> "redirecting", arg |-> last.arg.redirect_url]
           /\ last.effects =
                  <<Effect("setTransactionRedirecting", last.arg.redirect_url)>>

\* C6 witness: a call resolved with a redirect URL while another is still in flight.
C6_Witness ==
    /\ last.op = "then"
    /\ last.arg.hasUrl
    /\ last.arg.redirect_url = "https://pay.example/y"
    /\ calls # EmptyBag

\* C7: a processor call that resolves with no redirect_url, or with no response
\* object, sets the transaction status to error with the fixed message, and makes
\* no redirecting transition.
C7_ErrorOnMissingUrl ==
    (last.op = "then" /\ (~last.arg.defined \/ ~last.arg.hasUrl))
        => /\ transactionStatus =
                  [status |-> "error", arg |-> GenericErrorMessage]
           /\ last.effects = <<Effect("setTransactionError", GenericErrorMessage)>>

\* C7 witness: a call resolved with {}.
C7_Witness ==
    /\ last.op = "then"
    /\ last.arg.defined
    /\ ~last.arg.hasUrl

\* C8: a processor call that rejects with an error e sets the transaction status to
\* error with e.message, and makes no redirecting transition.
C8_ErrorOnRejection ==
    (last.op = "catch" /\ last.arg.defined)
        => /\ transactionStatus = [status |-> "error", arg |-> last.arg.message]
           /\ last.effects = <<Effect("setTransactionError", last.arg.message)>>

\* C8 witness: a call rejected with Error('card declined').
C8_Witness ==
    /\ last.op = "catch"
    /\ last.arg.defined
    /\ last.arg.message = "card declined"

\* C9: in a press, the processor is called only after the status was set to pending
\* and then the REDIRECT_TRANSACTION_BEGIN event was emitted; a press makes no
\* redirecting or error transition, and while a call is unsettled or being settled
\* the pending transition has been made.
C9_PendingThenEventThenCall ==
    /\ last.op = "onClick"
           => /\ \A k \in 1..Len(last.effects) :
                     last.effects[k].kind = "submitTransaction"
                         => \E i, j \in 1..(k - 1) :
                                /\ i < j
                                /\ last.effects[i].kind = "setTransactionPending"
                                /\ last.effects[j] =
                                       Effect("onEvent", RedirectBeginEvent)
              /\ EffectKinds(last.effects)
                     \cap {"setTransactionError", "setTransactionRedirecting"} = {}
    /\ (calls # EmptyBag \/ last.op \in {"then", "catch"})
           => transactionStatus.status # "not-started"

\* C9 witness: a press that called the processor while an earlier call is in flight.
C9_Witness ==
    /\ last.op = "onClick"
    /\ NamesSubmitted # <<>>
    /\ BagCardinality(calls) = 2

C11_AtMostOneInFlight == BagCardinality(calls) <= 1

\* C12: every failure of a submission is absorbed by the handlers and ends as an
\* error transition: no handler ends with an exception, and a rejection leaves the
\* transaction status at error.
C12_FailuresAbsorbed ==
    /\ "throw" \notin EffectKinds(last.effects)
    /\ last.op = "catch" => transactionStatus.status = "error"

\* C13: isFormValid returns the same boolean however often it is called with no
\* setter call of the user in between: in every state a second call agrees with the
\* first, and after a press the next call returns what the press's call returned
\* (the submission sequence ran exactly if it returned true).
C13_IsFormValidIdempotent ==
    /\ [](isFormValid(isFormValid(state).state).result = isFormValid(state).result)
    /\ [][last'.op = "onClick"
              => (isFormValid(state').result
                      <=> "submitTransaction" \in EffectKinds(last'.effects))]_vars

\* C13 witness: a press failed on an empty name that an earlier failed call had
\* already touched and the field had rendered.
C13_Witness ==
    /\ last.op = "onClick"
    /\ last.arg.name = EmptyString
    /\ NamesSubmitted = <<>>
    /\ rendered = [value |-> EmptyString, isTouched |-> TRUE]

\* C14: getCustomerName returns the store's field record when the state holds one,
\* and the default record {value: '', isTouched: false} when it holds none.
C14_SelectorDefaultsToRecord ==
    last.op = "getCustomerName"
        => ArgumentOf(last.effects[1]) =
               IF "customerName" \in DOMAIN last.arg
               THEN last.arg.customerName
               ELSE [value |-> EmptyString, isTouched |-> FALSE]

\* C15: nothing retries: the processor is invoked at most once per press that
\* passed validation, and the handlers that settle a call invoke it for nothing.
C15_NoAutomaticRetry ==
    /\ counts.invocations <= counts.validPresses
    /\ last.op \in {"then", "catch"}
           => "submitTransaction" \notin EffectKinds(last.effects)

\* C15 witness: the second of two submissions ended in error by rejection and no
\* call is left.
C15_Witness ==
    /\ last.op = "catch"
    /\ transactionStatus.status = "error"
    /\ counts.invocations = 2
    /\ counts.validPresses = 2
    /\ calls = EmptyBag

\* C16: whenever the field has rendered the store's current customerName, it is in
\* error state exactly if isTouched is true and the value has length 0; an untouched
\* empty field and a touched whitespace-only field show no error.
C16_ErrorIffTouchedAndEmpty ==
    rendered = getCustomerName(state)
        => (AlipayFieldsIsError
                <=> /\ getCustomerName(state).isTouched
                    /\ Len(getCustomerName(state).value) = 0)

\* C16 witness: a touched whitespace-only name is rendered without error.
C16_Witness ==
    /\ rendered = getCustomerName(state)
    /\ rendered = [value |-> <<" ">>, isTouched |-> TRUE]
    /\ ~AlipayFieldsIsError

\* C17: the pay button's label is 'Processing...' when the form status is
\* 'submitting', 'Pay <formatted total>' when it is 'ready', and 'Please wait...'
\* for every other status.
C17_ButtonLabel ==
    \A total \in Totals :
        ButtonContents(formStatus, total) =
            CASE formStatus = "submitting" -> Label("Processing...", <<>>)
              [] formStatus = "ready" ->
                     Label("Pay %s", <<[rendered |-> total.amount.displayValue]>>)
              [] OTHER -> Label("Please wait...", <<>>)

\* C17 witness: the host set a status that is neither 'ready' nor 'submitting'.
C17_Witness ==
    /\ last.op = "setFormStatus"
    /\ formStatus \in {"pending", "loading"}

\* C18: a press that fails validation leaves customerName.value as it was before
\* the press, and the field touched.
C18_FailedValidationKeepsValue ==
    (last.op = "onClick" /\ NamesSubmitted = <<>>)
        => /\ getCustomerName(state).value = last.arg.name
           /\ getCustomerName(state).isTouched

\* C18 witness: a press failed while the button still showed a name the store no
\* longer holds.
C18_Witness ==
    /\ last.op = "onClick"
    /\ NamesSubmitted = <<>>
    /\ rendered.value # EmptyString

\* C19: a press for which isFormValid returns false makes no transaction-status
\* transition, emits no event, calls no processor and throws nothing; a press for
\* which it returns true runs the pending / event / processor sequence.
C19_FailedPressIsLocal ==
    [][last'.op = "onClick"
           => IF isFormValid(state).result
              THEN {"setTransactionPending", "onEvent", "submitTransaction"}
                       \subseteq EffectKinds(last'.effects)
              ELSE /\ transactionStatus' = transactionStatus
                   /\ calls' = calls
                   /\ counts' = counts
                   /\ EffectKinds(last'.effects) \subseteq {"dispatch"}]_vars

\* C19 witness: a press failed validation after an earlier submission had ended in
\* error; the status is still that error.
C19_Witness ==
    /\ last.op = "onClick"
    /\ NamesSubmitted = <<>>
    /\ transactionStatus.status = "error"

\* C20: the store changes only in a step that dispatches CUSTOMER_NAME_SET: actions
\* of other types, selector reads, presses that pass validation and settlements of
\* the processor call leave it as it is.
C20_OnlySetterMutates ==
    [][state' # state
           => \E i \in 1..Len(last'.effects) :
                  /\ last'.effects[i].kind = "dispatch"
                  /\ ArgumentOf(last'.effects[i]).type = "CUSTOMER_NAME_SET"]_vars

\* C20 witness: an action of another type, carrying 'a', left a whitespace name alone.
C20_Witness ==
    /\ last.op = "dispatch"
    /\ last.arg.type = "OTHER"
    /\ getCustomerName(state) = [value |-> <<" ">>, isTouched |-> TRUE]

\* The events the handler that ran last emitted.
EventsEmitted == SelectSeq(last.effects, LAMBDA e : e.kind = "onEvent")

\* C21: a press that passes validation emits exactly one event,
\* REDIRECT_TRANSACTION_BEGIN with paymentMethodId 'alipay', before the processor
\* is called; a press that fails and the settlement of a call emit none; so the
\* events emitted, the processor invocations and the presses that passed
\* validation are equal in number.
C21_OneEventPerSubmission ==
    /\ counts.events = counts.invocations
    /\ counts.events = counts.validPresses
    /\ last.op = "onClick"
           => EventsEmitted =
                  (IF NamesSubmitted # <<>>
                   THEN <<Effect("onEvent", RedirectBeginEvent)>> ELSE <<>>)
    /\ last.op \in {"then", "catch"} => EventsEmitted = <<>>

\* C21 witness: the second of two submissions resolved; two events were emitted.
C21_Witness ==
    /\ last.op = "then"
    /\ counts.events = 2
    /\ counts.invocations = 2
    /\ calls = EmptyBag

\* C26: in every reachable store state an untouched customerName holds the empty
\* string: the store starts at {value: '', isTouched: false} and every step that
\* sets a value sets isTouched.
C26_UntouchedIsEmpty ==
    ~getCustomerName(state).isTouched => getCustomerName(state).value = EmptyString

\* C26 witness: the field is still untouched after an action of another type that
\* carried 'a' went through the reducer.
C26_Witness ==
    /\ last.op = "dispatch"
    /\ last.arg.payload # EmptyString
    /\ getCustomerName(state) = [value |-> EmptyString, isTouched |-> FALSE]

\* The terminal transitions of the transaction status the handler that ran last made.
TerminalTransitions ==
    SelectSeq(last.effects,
              LAMBDA e : e.kind \in {"setTransactionError", "setTransactionRedirecting"})

\* C24: the settlement of a processor call makes exactly one terminal transition
\* of the transaction status, redirecting or error, and the pending transition of
\* its submission was made before.
C24_OneTerminalTransition ==
    last.op \in {"then", "catch"}
        => /\ Len(TerminalTransitions) = 1
           /\ transactionStatus.status \in {"error", "redirecting"}

\* C25: the name a press passes to the processor is never empty: it is the
\* non-empty name of the store that isFormValid judged, also when the store changed
\* after the pay button last rendered.
C25_NameSentIsValidated ==
    \A i \in 1..Len(NamesSubmitted) :
        /\ ArgumentOf(NamesSubmitted[i]) # EmptyString
        /\ ArgumentOf(NamesSubmitted[i]) = last.arg.name

\* A press failed validation.
FailedPress == last.op = "onClick" /\ NamesSubmitted = <<>>

\* The store's customerName is touched and empty.
TouchedAndEmpty == getCustomerName(state) = [value |-> EmptyString, isTouched |-> TRUE]

\* C22: a press that fails validation, the first press from the initial state
\* included, leaves the store at {value: '', isTouched: true}; the field that has
\* rendered this is in error state with the message 'This field is required'; after
\* the press the field comes to show the error unless a non-empty name is set; and
\* a field in error leaves the error state only when the store holds a non-empty
\* name.
C22_FieldInErrorAfterFailedPress ==
    /\ [](FailedPress => TouchedAndEmpty)
    /\ []((TouchedAndEmpty /\ rendered = getCustomerName(state))
              => /\ AlipayFieldProps.isError
                 /\ AlipayFieldProps.errorMessage = "This field is required")
    /\ [][(AlipayFieldsIsError /\ ~AlipayFieldsIsError')
              => getCustomerName(state').value # EmptyString]_vars
    /\ FailedPress ~> (AlipayFieldsIsError \/ getCustomerName(state).value # EmptyString)

\* C22 witness: the first press from the initial state failed and the field has
\* rendered it: nothing was typed, submitted or dispatched by anyone else.
C22_Witness ==
    /\ last.op = "render"
    /\ AlipayFieldProps.isError
    /\ TouchedAndEmpty
    /\ counts.validPresses = 0
    /\ transactionStatus.status = "not-started"

\* C23: a press that passed validation and whose processor call was made and
\* settles is followed by a redirecting or an error transition: the transaction
\* status does not stay pending.
C23_SubmissionEnds ==
    (last.op = "onClick" /\ NamesSubmitted # <<>>
         /\ "throw" \notin EffectKinds(last.effects))
        ~> (transactionStatus.status \in {"redirecting", "error"})

\* What the sidebar's last render selected.
Selected(hook) ==
    ArgumentOf(CHOOSE e \in {last.effects[i] : i \in 1..Len(last.effects)} :
                   e.kind = hook)

\* C27: while the status records are not loaded useNavItems returns no item, the
\* current post neither; once they are loaded it returns the current post followed
\* by the records the store holds for the post query, in their order, and the
\* current post alone while the store holds none; the query excludes the current
\* post id, so the current post is listed once, and first.
C27_NavItems ==
    last.op = "renderSidebar"
        => LET ed == last.arg
               items == Selected("useNavItems")
           IN  IF ~ed.statuses.loaded
               THEN items = <<>>
               ELSE /\ items[1].id = ed.currentPostId
                    /\ Tail(items) =
                           (IF ed.items.resolved /\ ed.items.query = PostQuery(ed)
                            THEN ed.items.records ELSE <<>>)
                    /\ PostQuery(ed).exclude = {ed.currentPostId}
                    /\ \A i \in 2..Len(items) : items[i].id # ed.currentPostId

\* C27 witness: the sidebar lists the current post, 2, and after it post 1, which
\* the site answered the query with.
C27_Witness ==
    /\ last.op = "renderSidebar"
    /\ Len(Selected("useNavItems")) = 2
    /\ last.arg.currentPostId = 2
    /\ Selected("useNavItems")[2].id = 1

\* C28: a click on the home button calls preventDefault and fires
\* 'a8c.wpcom-block-editor.closeEditor', in this order, exactly if a handler for
\* that action is registered at the time of the click, and the browser stays in
\* the editor; otherwise it does neither, and the browser follows the link to
\* closeUrl.
C28_HandleClose ==
    last.op = "handleClose"
        => IF last.arg.hasAction
           THEN /\ last.effects = <<Effect("preventDefault", <<>>),
                                    Effect("doAction", CloseEditorAction)>>
                /\ editor.location = "editor"
           ELSE /\ last.effects = <<>>
                /\ editor.location = closeUrl

\* C28 witness: the home button was clicked while no handler was registered, the
\* sidebar's statuses being loaded; the browser is at closeUrl.
C28_Witness ==
    /\ last.op = "handleClose"
    /\ ~last.arg.hasAction
    /\ editor.location = closeUrl
    /\ editor.statuses.loaded

\* C29: the label map holds slug -> name for every loaded status record whose slug
\* is not 'publish' and nothing else, so no 'publish' entry, and is empty while the
\* status records are not loaded; an item whose status is 'publish' or is in no
\* loaded record is rendered without a status label.
C29_StatusLabels ==
    last.op = "renderSidebar"
        => LET ed == last.arg
               labels == Selected("usePostStatusLabels")
               loaded == IF ed.statuses.loaded
                         THEN {ed.statuses.records[i] :
                                   i \in 1..Len(ed.statuses.records)}
                         ELSE {}
               items == Selected("useNavItems")
               list == Selected("PageList")
           IN  /\ DOMAIN labels = {r.slug : r \in loaded} \ {"publish"}
               /\ \A r \in loaded : r.slug # "publish" => labels[r.slug] = r.name
               /\ \A i \in 1..Len(items) :
                      (\/ items[i].status = "publish"
                       \/ items[i].status \notin {r.slug : r \in loaded})
                          => list[i].label = <<>>

\* C29 witness: the 'publish' and 'draft' records are loaded, and the sidebar
\* lists a published post without a label and a draft with the label 'Draft'.
C29_Witness ==
    /\ last.op = "renderSidebar"
    /\ DOMAIN Selected("usePostStatusLabels") = {"draft"}
    /\ \E i, j \in 1..Len(Selected("PageList")) :
           /\ Selected("useNavItems")[i].status = "publish"
           /\ Selected("PageList")[i].label = <<>>
           /\ Selected("PageList")[j].label = <<"Draft">>

====
